---- MODULE Spec2Model ----
(***************************************************************************)
(* Model of quiz_app.py: the spreadsheet loaders, the score accumulation,  *)
(* the 3x3 classifier and resolver, the Streamlit rerun cycle of one       *)
(* session, and the statistics file's read-modify-write.                   *)
(*                                                                         *)
(* Four specifications share the variables:                                *)
(*   SpecLoad      load_questions applied to authored sheets               *)
(*   SpecClassify  load_results / find_result applied to totals            *)
(*   Spec          one browser session driving the script's rerun cycle    *)
(*   SpecStats     several sessions' update_stats calls interleaving       *)
(***************************************************************************)
EXTENDS Integers, Sequences, FiniteSets, TLC

VARIABLES
    layout,        \* shape of the quiz sheet: "headerless15", "headered15", "headered13"
    data,          \* the quiz sheet's data rows (cells as authored)
    edits,         \* number of cell edits made to the sheet before it is loaded
    pc,            \* "author", "loaded", "load_error" | "input", "done" | "session" | "stats"
    questions,     \* return value of load_questions
    qperm,         \* outcome of random.shuffle(questions): presented k is kept row qperm[k]
    operm,         \* outcome of random.shuffle(options), one permutation per kept row
    results_src,   \* name cells of the rows of results.xlsx, in file order
    total_work,    \* total_work / work_score handed to find_result
    total_pers,    \* total_pers / pers_score handed to find_result
    cats,          \* <<work_cat, pers_cat>> computed by get_result_category
    result,        \* outcome of find_result: a row, None or the IndexError of iloc
    responses,     \* st.session_state.responses
    first_time,    \* st.session_state.first_time: None, "True" or "False"
    radio,         \* the option position the user has selected in each st.radio
    rendered,      \* the buttons the last script run put on the page
    last_click,    \* the widget interaction that triggered the last script run
    display,       \* what the last script run showed below the questions
    stats_exists,  \* os.path.isfile(results_stats_path)
    stats,         \* rows of results_stats.xlsx
    wpc,           \* per concurrent update_stats call: position in the function
    wname,         \* per call: its plant_name argument
    wlocal,        \* per call: its local stats_df
    wsaw,          \* per call: what os.path.isfile returned in ensure_stats_file
    completed,     \* number of update_stats calls that returned, per plant name
    overlapped     \* TRUE once a call started while another was in progress

loadVars    == <<layout, data, edits, questions, qperm, operm>>
classVars   == <<results_src, total_work, total_pers, cats, result>>
sessionVars == <<responses, first_time, radio, rendered, last_click, display>>
fileVars    == <<stats_exists, stats>>
writerVars  == <<wpc, wname, wlocal, wsaw, completed, overlapped>>
vars == <<pc, loadVars, classVars, sessionVars, fileVars, writerVars>>

(***************************************************************************)
(* Bounds of the model.                                                    *)
(***************************************************************************)
Scale       == 2   \* scores are counted in units of 1/Scale
MaxEdits    == 1   \* cells of the base sheet changed before loading
MaxWork     == 16  \* largest work total (whole points) handed to the classifier
MaxPers     == 23  \* largest personality total (whole points) handed to it
MaxMissing  == 1   \* named result rows missing from the nine
MaxExtra    == 1   \* named result rows present beyond the ninth
MaxRecorded == 1   \* results one session records in the statistics file
NumWriters  == 2   \* concurrent update_stats callers
MaxCalls    == 2   \* update_stats calls started per plant name

(***************************************************************************)
(* Program constants.                                                      *)
(***************************************************************************)
NumOptions  == 4
NumCols     == 15
NumResults  == 9
WorkLowMax  == 10
WorkMidMax  == 15
PersLowMax  == 10
PersMidMax  == 22

(***************************************************************************)
(* Values.  A spreadsheet cell is blank, a number or a text.  A Python     *)
(* float is a number (in units of 1/Scale) or NaN.                         *)
(***************************************************************************)
Blank   == [kind |-> "blank", num |-> 0, text |-> ""]
Num(n)  == [kind |-> "num", num |-> n, text |-> ""]
Text(s) == [kind |-> "text", num |-> 0, text |-> s]
Pts(n)  == Num(n * Scale)

NaN     == [nan |-> TRUE, v |-> 0]
F(n)    == [nan |-> FALSE, v |-> n]

None    == "None"

\* a + b on floats: NaN is absorbing
FAdd(a, b) == IF a.nan \/ b.nan THEN NaN ELSE F(a.v + b.v)
\* a <= n for a whole-point bound n: every comparison with NaN is False
FLe(a, n)  == ~a.nan /\ a.v <= n * Scale
FGt(a, n)  == ~a.nan /\ a.v > n * Scale

Range(s) == {s[i] : i \in DOMAIN s}
Perms(n) == {p \in [1..n -> 1..n] : \A i, j \in 1..n : i # j => p[i] # p[j]}
Ident(n) == [i \in 1..n |-> i]

(***************************************************************************)
(* The quiz sheet.  A data row holds the 13 meaningful cells; the sheet    *)
(* lays them out in 15 columns (two ignorable ones) or 13, with or without *)
(* a header row.                                                           *)
(***************************************************************************)
colnames == <<"question", "ans1", "ans2", "ans3", "ans4",
              "skip1", "work1", "work2", "work3", "work4",
              "skip2", "pers1", "pers2", "pers3", "pers4">>
colnames13 == <<"question", "ans1", "ans2", "ans3", "ans4",
                "work1", "work2", "work3", "work4",
                "pers1", "pers2", "pers3", "pers4">>

Col(prefix, i) == prefix \o ToString(i)

RowCells(names, r) ==
    [k \in 1..Len(names) |->
        LET n == names[k] IN
        IF n = "question" THEN r.question
        ELSE IF \E i \in 1..NumOptions : n = Col("ans", i)
             THEN r.ans[CHOOSE i \in 1..NumOptions : n = Col("ans", i)]
        ELSE IF \E i \in 1..NumOptions : n = Col("work", i)
             THEN r.work[CHOOSE i \in 1..NumOptions : n = Col("work", i)]
        ELSE IF \E i \in 1..NumOptions : n = Col("pers", i)
             THEN r.pers[CHOOSE i \in 1..NumOptions : n = Col("pers", i)]
        ELSE Blank]

HeaderCells(names) == [k \in 1..Len(names) |-> Text(names[k])]

\* the grid of cells pd.read_excel sees
Sheet(lay, rows) ==
    LET names == IF lay = "headered13" THEN colnames13 ELSE colnames
        body  == [r \in 1..Len(rows) |-> RowCells(names, rows[r])]
    IN  IF lay = "headerless15" THEN body ELSE <<HeaderCells(names)>> \o body

(***************************************************************************)
(* load_questions                                                          *)
(***************************************************************************)
\* the label pandas gives column k (0-based) from the cell of the header row
ColumnLabel(cell, k) ==
    IF cell.kind = "text" THEN cell.text
    ELSE IF cell.kind = "blank" THEN "Unnamed: " \o ToString(k)
    ELSE ToString(cell.num)

\* the test that sends the loader to the positional re-read
Positional(sheet) ==
    \/ Len(sheet[1]) >= NumCols
    \/ ColumnLabel(sheet[1][1], 0) \in {"A", "Unnamed: 0"}

\* the DataFrame the loader iterates: column labels and the rows of cells
Frame(sheet) ==
    IF Positional(sheet)
    THEN [columns |-> colnames,
          rows    |-> [r \in 1..Len(sheet) |->
                          [k \in 1..NumCols |->
                              IF k <= Len(sheet[r]) THEN sheet[r][k] ELSE Blank]]]
    ELSE [columns |-> [k \in 1..Len(sheet[1]) |-> ColumnLabel(sheet[1][k], k - 1)],
          rows    |-> Tail(sheet)]

HasColumn(df, name) == \E k \in 1..Len(df.columns) : df.columns[k] = name
At(df, r, name) ==
    df.rows[r][CHOOSE k \in 1..Len(df.columns) : df.columns[k] = name]

\* pd.to_numeric(..., errors='coerce'): what is not a number becomes NaN
to_numeric(cell) == IF cell.kind = "num" THEN F(cell.num) ELSE NaN

\* float(x or 0.0): only a falsy x (zero) is replaced; NaN is truthy
OrZero(x) == IF ~x.nan /\ x.v = 0 THEN F(0) ELSE x

\* str(x) of a cell as pandas hands it over: a blank cell is the float NaN
Str(cell) ==
    IF cell.kind = "text" THEN cell.text
    ELSE IF cell.kind = "blank" THEN "nan"
    ELSE ToString(cell.num)

Falsy(cell) ==
    \/ cell.kind = "text" /\ cell.text = ""
    \/ cell.kind = "num" /\ cell.num = 0

\* str(row[f'ans{i}'] or f"Option {i}")
OptionText(cell, i) == IF Falsy(cell) THEN Col("Option ", i) ELSE Str(cell)

Options(df, r) ==
    [i \in 1..NumOptions |->
        [text        |-> OptionText(At(df, r, Col("ans", i)), i),
         work        |-> OrZero(to_numeric(At(df, r, Col("work", i)))),
         personality |-> OrZero(to_numeric(At(df, r, Col("pers", i))))]]

\* rows whose question cell is not NaN, in sheet order
KeptRows(df) ==
    SelectSeq([r \in 1..Len(df.rows) |-> r],
              LAMBDA r : At(df, r, "question").kind # "blank")

NeededColumns ==
    {"question"} \cup {Col(p, i) : p \in {"ans", "work", "pers"}, i \in 1..NumOptions}

\* row['...'] raises KeyError when the header mode lacks a column
LoadRaises(sheet) ==
    LET df == Frame(sheet) IN
    /\ Len(df.rows) > 0
    /\ \E n \in NeededColumns : ~HasColumn(df, n)

\* random.shuffle with outcome p
Shuffle(s, p) == [k \in 1..Len(s) |-> s[p[k]]]

NumKept(sheet) == Len(KeptRows(Frame(sheet)))

load_questions(sheet, qp, op) ==
    LET df   == Frame(sheet)
        kept == KeptRows(df)
        made == [r \in 1..Len(kept) |->
                    [question |-> Str(At(df, kept[r], "question")),
                     options  |-> Shuffle(Options(df, kept[r]), op[r])]]
    IN  Shuffle(made, qp)

(***************************************************************************)
(* SpecLoad: a sheet is authored from the base row by at most MaxEdits     *)
(* cell edits, in one of the three layouts, then loaded.                   *)
(***************************************************************************)
Layouts == {"headerless15", "headered15", "headered13"}

BaseRow ==
    [question |-> Text("Do you water yourself?"),
     ans      |-> <<Text("Always"), Text("Often"), Text("Rarely"), Text("Never")>>,
     work     |-> <<Pts(5), Pts(0), Pts(11), Pts(16)>>,
     pers     |-> <<Pts(3), Pts(12), Pts(0), Pts(23)>>]

ScoreEdits == {Blank, Text("n/a"), Pts(0), Pts(7)}
AnsEdits   == {Blank, Text("Often")}

IdleLoad ==
    /\ layout = "headerless15" /\ data = <<>> /\ edits = 0
    /\ questions = <<>> /\ qperm = <<>> /\ operm = <<>>
IdleClass ==
    /\ results_src = <<>> /\ total_work = F(0) /\ total_pers = F(0)
    /\ cats = <<None, None>> /\ result = None
IdleSession ==
    /\ responses = <<>> /\ first_time = None /\ radio = <<>>
    /\ rendered = {} /\ last_click = None /\ display = None
IdleFile ==
    /\ stats_exists = FALSE /\ stats = <<>>
IdleWriters ==
    /\ wpc = <<>> /\ wname = <<>> /\ wlocal = <<>> /\ wsaw = <<>>
    /\ completed = <<>> /\ overlapped = FALSE

InitLoad ==
    /\ pc = "author"
    /\ layout \in Layouts
    /\ data = <<BaseRow>>
    /\ edits = 0
    /\ questions = <<>> /\ qperm = <<>> /\ operm = <<>>
    /\ IdleClass /\ IdleSession /\ IdleFile /\ IdleWriters

\* the author changes one cell of a data row
EditCell ==
    /\ pc = "author"
    /\ edits < MaxEdits
    /\ \E r \in 1..Len(data) :
          \/ data' = [data EXCEPT ![r].question = Blank]
          \/ \E i \in 1..NumOptions, c \in AnsEdits :
                data' = [data EXCEPT ![r].ans[i] = c]
          \/ \E i \in 1..NumOptions, c \in ScoreEdits :
                data' = [data EXCEPT ![r].work[i] = c]
          \/ \E i \in 1..NumOptions, c \in ScoreEdits :
                data' = [data EXCEPT ![r].pers[i] = c]
    /\ edits' = edits + 1
    /\ UNCHANGED <<pc, layout, questions, qperm, operm>>
    /\ UNCHANGED <<classVars, sessionVars, fileVars, writerVars>>

\* load_questions(quiz_source) with the shuffles' outcomes qp and op
Load ==
    /\ pc = "author"
    /\ LET sheet == Sheet(layout, data)
           n     == NumKept(sheet)
       IN  IF LoadRaises(sheet)
           THEN /\ pc' = "load_error"
                /\ UNCHANGED <<questions, qperm, operm>>
           ELSE /\ pc' = "loaded"
                /\ \E qp \in Perms(n), op \in [1..n -> Perms(NumOptions)] :
                      /\ questions' = load_questions(sheet, qp, op)
                      /\ qperm' = qp
                      /\ operm' = op
    /\ UNCHANGED <<layout, data, edits>>
    /\ UNCHANGED <<classVars, sessionVars, fileVars, writerVars>>

NextLoad == EditCell \/ Load

SpecLoad == InitLoad /\ [][NextLoad]_vars

(***************************************************************************)
(* load_results, get_result_category, find_result                          *)
(***************************************************************************)
\* df.dropna(subset=['name']).head(9).reset_index(drop=True)
load_results(src) ==
    LET named == SelectSeq(src, LAMBDA row : row.name.kind # "blank")
    IN  SubSeq(named, 1, IF Len(named) < NumResults THEN Len(named) ELSE NumResults)

get_result_category(work_score, pers_score) ==
    <<IF FLe(work_score, WorkLowMax) THEN "LOW"
      ELSE IF FLe(work_score, WorkMidMax) THEN "MID" ELSE "HIGH",
      IF FLe(pers_score, PersLowMax) THEN "LOW"
      ELSE IF FLe(pers_score, PersMidMax) THEN "MID" ELSE "HIGH">>

\* two entries of the table exchanged: the axes transposed for one pair
category_map_transposed ==
    (<<"HIGH", "HIGH">> :> 0) @@ (<<"MID", "HIGH">> :> 3) @@ (<<"LOW", "HIGH">> :> 2) @@
    (<<"HIGH", "MID">>  :> 1) @@ (<<"MID", "MID">>  :> 4) @@ (<<"LOW", "MID">>  :> 5) @@
    (<<"HIGH", "LOW">>  :> 6) @@ (<<"MID", "LOW">>  :> 7) @@ (<<"LOW", "LOW">>  :> 8)

category_map ==
    (<<"HIGH", "HIGH">> :> 0) @@ (<<"MID", "HIGH">> :> 1) @@ (<<"LOW", "HIGH">> :> 2) @@
    (<<"HIGH", "MID">>  :> 3) @@ (<<"MID", "MID">>  :> 4) @@ (<<"LOW", "MID">>  :> 5) @@
    (<<"HIGH", "LOW">>  :> 6) @@ (<<"MID", "LOW">>  :> 7) @@ (<<"LOW", "LOW">>  :> 8)

NoRow == [name |-> Blank, description |-> Blank, image_url |-> Blank]

\* the row at iloc[grid_index], None for a key outside the map, or the
\* IndexError iloc raises for a position past the end of the table
find_result(work_score, pers_score, results_df) ==
    LET key == get_result_category(work_score, pers_score) IN
    IF key \in DOMAIN category_map
    THEN LET grid_index == category_map[key] IN
         IF grid_index < Len(results_df)
         THEN [outcome |-> "row", row |-> results_df[grid_index + 1]]
         ELSE [outcome |-> "IndexError", row |-> NoRow]
    ELSE [outcome |-> "None", row |-> NoRow]

(***************************************************************************)
(* SpecClassify: totals and a results sheet are drawn, then resolved.      *)
(***************************************************************************)
CanonNames == <<"maxW_maxP", "midW_maxP", "lowW_maxP",
                "maxW_midP", "midW_midP", "lowW_midP",
                "maxW_lowP", "midW_lowP", "lowW_lowP">>

ResultName(i) == IF i <= Len(CanonNames) THEN CanonNames[i]
                 ELSE Col("extra", i - Len(CanonNames))

ResultRow(i) ==
    [name        |-> Text(ResultName(i)),
     description |-> Text("About " \o ResultName(i)),
     image_url   |-> Blank]

StrayRow == [name |-> Blank, description |-> Text("stray note"), image_url |-> Blank]

NamedRows(n) == [i \in 1..n |-> ResultRow(i)]

\* a row with an empty name put before row b of the sheet (b = 0: none)
WithStray(rows, b) ==
    IF b = 0 \/ b > Len(rows) THEN rows
    ELSE SubSeq(rows, 1, b - 1) \o <<StrayRow>> \o SubSeq(rows, b, Len(rows))

ResultSources ==
    {WithStray(NamedRows(n), b) :
        n \in (NumResults - MaxMissing)..(NumResults + MaxExtra), b \in {0, 2}}

Floats(max) == {F(v) : v \in (0 - Scale)..(max * Scale)} \cup {NaN}

InitClassify ==
    /\ pc = "input"
    /\ results_src \in ResultSources
    /\ total_work \in Floats(MaxWork)
    /\ total_pers \in Floats(MaxPers)
    /\ cats = <<None, None>>
    /\ result = None
    /\ IdleLoad /\ IdleSession /\ IdleFile /\ IdleWriters

\* results_df = load_results(...); result = find_result(...)
Resolve ==
    /\ pc = "input"
    /\ pc' = "done"
    /\ cats' = get_result_category(total_work, total_pers)
    /\ result' = find_result(total_work, total_pers, load_results(results_src))
    /\ UNCHANGED <<results_src, total_work, total_pers>>
    /\ UNCHANGED <<loadVars, sessionVars, fileVars, writerVars>>

NextClassify == Resolve

SpecClassify == InitClassify /\ [][NextClassify]_vars

(***************************************************************************)
(* update_stats, run by one caller without interruption                    *)
(***************************************************************************)
\* ensure_stats_file followed by pd.read_excel: the table update_stats reads
ReadStats(exists, table) == IF exists THEN table ELSE <<>>

\* the increment forgotten: a name already present keeps its count
Increment_dropped(table, plant_name) ==
    IF \E k \in 1..Len(table) : table[k].plant_name = plant_name
    THEN table
    ELSE Append(table, [plant_name |-> plant_name, count |-> 1])

\* count += 1 on the rows of plant_name, or a new row with count 1
Increment(table, plant_name) ==
    IF \E k \in 1..Len(table) : table[k].plant_name = plant_name
    THEN [k \in 1..Len(table) |->
            IF table[k].plant_name = plant_name
            THEN [table[k] EXCEPT !.count = @ + 1]
            ELSE table[k]]
    ELSE Append(table, [plant_name |-> plant_name, count |-> 1])

RECURSIVE CountSum(_, _)
CountSum(table, k) == IF k = 0 THEN 0 ELSE table[k].count + CountSum(table, k - 1)
\* all counts of the table added up
Recorded_total(table) == CountSum(table, Len(table))

\* the count stored for a name, 0 when the name has no row
StoredCount(table, plant_name) ==
    IF \E k \in 1..Len(table) : table[k].plant_name = plant_name
    THEN table[CHOOSE k \in 1..Len(table) : table[k].plant_name = plant_name].count
    ELSE 0

(***************************************************************************)
(* The script's rerun cycle for one session                                *)
(***************************************************************************)
\* st.radio returns the text of the selected option; a truthy choice is stored
Recorded(qs, sel, old) ==
    [idx \in 1..Len(qs) |->
        LET choice == qs[idx].options[sel[idx]].text IN
        IF choice # "" THEN choice ELSE old[idx]]

\* next(opt for opt in q["options"] if opt["text"] == chosen_text)
Selected(q, chosen_text) ==
    q.options[CHOOSE j \in 1..Len(q.options) :
                 /\ q.options[j].text = chosen_text
                 /\ \A h \in 1..(j - 1) : q.options[h].text # chosen_text]

\* the accumulation loop over zip(questions, responses), from position idx on
RECURSIVE Accumulate(_, _, _, _)
Accumulate(qs, resp, idx, acc) ==
    IF idx > Len(qs) \/ idx > Len(resp) THEN acc
    ELSE IF resp[idx] # None /\ resp[idx] # ""
         THEN LET selected == Selected(qs[idx], resp[idx]) IN
              Accumulate(qs, resp, idx + 1,
                         [work        |-> FAdd(acc.work, selected.work),
                          personality |-> FAdd(acc.personality, selected.personality)])
         ELSE Accumulate(qs, resp, idx + 1, acc)

Totals(qs, resp) == Accumulate(qs, resp, 1, [work |-> F(0), personality |-> F(0)])

Unanswered(n) == [idx \in 1..n |-> None]
DefaultRadio(n) == [idx \in 1..n |-> 1]

SecondRow ==
    [question |-> Text("Do you lean towards the window?"),
     ans      |-> <<Text("Yes"), Text("No"), Text("Sometimes"), Text("Only on Mondays")>>,
     work     |-> <<Pts(6), Pts(0), Pts(4), Pts(12)>>,
     pers     |-> <<Pts(0), Pts(8), Pts(11), Pts(2)>>]

\* two options of one question carry the same text with different scores
TwinRow ==
    [question |-> Text("How often do you need repotting?"),
     ans      |-> <<Text("Often"), Text("Often"), Text("Rarely"), Text("Never")>>,
     work     |-> <<Pts(16), Pts(1), Pts(11), Pts(4)>>,
     pers     |-> <<Pts(23), Pts(2), Pts(11), Pts(0)>>]

\* one score cell left empty
GapRow ==
    [question |-> Text("Do you droop on Fridays?"),
     ans      |-> <<Text("Always"), Text("Often"), Text("Rarely"), Text("Never")>>,
     work     |-> <<Blank, Pts(0), Pts(11), Pts(16)>>,
     pers     |-> <<Pts(3), Pts(12), Pts(0), Pts(23)>>]

QuizSheets == {<<BaseRow, SecondRow>>, <<TwinRow>>, <<GapRow>>}

SessionResultSources ==
    {NamedRows(n) : n \in (NumResults - MaxMissing)..NumResults}

\* the state after the first script run of a session: the first-time question
Init ==
    /\ pc = "session"
    /\ layout = "headerless15"
    /\ data \in QuizSheets
    /\ edits = 0
    /\ LET sheet == Sheet(layout, data)
           n     == NumKept(sheet)
       IN  \E qp \in Perms(n), op \in [1..n -> Perms(NumOptions)] :
              /\ questions = load_questions(sheet, qp, op)
              /\ qperm = qp
              /\ operm = op
    /\ results_src \in SessionResultSources
    /\ total_work = F(0) /\ total_pers = F(0)
    /\ cats = <<None, None>> /\ result = None
    /\ responses = Unanswered(Len(questions))
    /\ first_time = None
    /\ radio = DefaultRadio(Len(questions))
    /\ rendered = {"first_yes", "first_no"}
    /\ last_click = None
    /\ display = "first_time_question"
    /\ IdleFile /\ IdleWriters

\* a run that reaches the end of the question loop without Calculate pressed
ShowQuestions(sel, click) ==
    /\ radio' = sel
    /\ responses' = Recorded(questions, sel, responses)
    /\ rendered' = {"calculate"}
    /\ display' = "questions"
    /\ last_click' = click
    /\ total_work' = F(0) /\ total_pers' = F(0)
    /\ cats' = <<None, None>> /\ result' = None
    /\ UNCHANGED <<pc, loadVars, results_src, fileVars, writerVars>>

\* "Yes" / "No": first_time is set and st.rerun() runs the script again,
\* which now renders fresh radios and the Calculate button
PressYes ==
    /\ pc = "session"
    /\ "first_yes" \in rendered
    /\ first_time' = "True"
    /\ ShowQuestions(DefaultRadio(Len(questions)), "first_yes")

PressNo ==
    /\ pc = "session"
    /\ "first_no" \in rendered
    /\ first_time' = "False"
    /\ ShowQuestions(DefaultRadio(Len(questions)), "first_no")

\* the user moves the radio of question idx to another option
SelectOption ==
    /\ pc = "session"
    /\ "calculate" \in rendered
    /\ \E idx \in 1..Len(questions), j \in 1..NumOptions :
          /\ j # radio[idx]
          /\ ShowQuestions([radio EXCEPT ![idx] = j], "radio")
    /\ UNCHANGED first_time

\* "Calculate My Results!"
PressCalculate ==
    /\ pc = "session"
    /\ "calculate" \in rendered
    /\ LET resp  == Recorded(questions, radio, responses)
           tot   == Totals(questions, resp)
           found == find_result(tot.work, tot.personality, load_results(results_src))
           name  == found.row.name.text
           table == ReadStats(stats_exists, stats)
       IN  /\ responses' = resp
           /\ total_work' = tot.work
           /\ total_pers' = tot.personality
           /\ cats' = get_result_category(tot.work, tot.personality)
           /\ result' = found
           /\ IF found.outcome = "row"
              THEN /\ display' = "result"
                   /\ rendered' = {"calculate", "again"}
                   /\ IF first_time = "True"
                      THEN /\ Recorded_total(table) < MaxRecorded
                           /\ stats_exists' = TRUE
                           /\ stats' = Increment(table, name)
                      ELSE UNCHANGED fileVars
              ELSE /\ display' = IF found.outcome = "None" THEN "warning" ELSE "error"
                   /\ rendered' = {"calculate"}
                   /\ UNCHANGED fileVars
    /\ last_click' = "calculate"
    /\ UNCHANGED <<pc, loadVars, results_src, first_time, radio, writerVars>>

\* "Take quiz again": on the rerun the Calculate button returns False, so the
\* block that holds the reset is not entered
PressAgain ==
    /\ pc = "session"
    /\ "again" \in rendered
    /\ ShowQuestions(radio, "again")
    /\ UNCHANGED first_time

Next == PressYes \/ PressNo \/ SelectOption \/ PressCalculate \/ PressAgain

Spec == Init /\ [][Next]_vars

(***************************************************************************)
(* SpecStats: update_stats called from several sessions at once.  Each     *)
(* session's script runs in its own thread; a call is four file steps:     *)
(* os.path.isfile, to_excel of the empty table, read_excel, to_excel.      *)
(***************************************************************************)
Writers   == 1..NumWriters
StatNames == {ResultName(1), ResultName(2)}

InFlight(plant_name) ==
    Cardinality({w \in Writers : wpc[w] # "idle" /\ wname[w] = plant_name})

InitStats ==
    /\ pc = "stats"
    /\ stats_exists \in BOOLEAN
    /\ stats = <<>>
    /\ wpc = [w \in Writers |-> "idle"]
    /\ wname = [w \in Writers |-> None]
    /\ wlocal = [w \in Writers |-> <<>>]
    /\ wsaw = [w \in Writers |-> FALSE]
    /\ completed = [n \in StatNames |-> 0]
    /\ overlapped = FALSE
    /\ IdleLoad /\ IdleClass /\ IdleSession

\* update_stats(plant_name) is entered
CallUpdate(w) ==
    /\ wpc[w] = "idle"
    /\ \E n \in StatNames :
          /\ completed[n] + InFlight(n) < MaxCalls
          /\ wname' = [wname EXCEPT ![w] = n]
    /\ wpc' = [wpc EXCEPT ![w] = "isfile"]
    /\ overlapped' = (overlapped \/ \E o \in Writers : o # w /\ wpc[o] # "idle")
    /\ UNCHANGED <<wlocal, wsaw, completed, fileVars>>

\* ensure_stats_file: os.path.isfile(results_stats_path)
CheckFile(w) ==
    /\ wpc[w] = "isfile"
    /\ wsaw' = [wsaw EXCEPT ![w] = stats_exists]
    /\ wpc' = [wpc EXCEPT ![w] = IF stats_exists THEN "read" ELSE "create"]
    /\ UNCHANGED <<wname, wlocal, completed, overlapped, fileVars>>

\* ensure_stats_file: the empty table is written
CreateFile(w) ==
    /\ wpc[w] = "create"
    /\ stats_exists' = TRUE
    /\ stats' = <<>>
    /\ wpc' = [wpc EXCEPT ![w] = "read"]
    /\ UNCHANGED <<wname, wlocal, wsaw, completed, overlapped>>

\* stats_df = pd.read_excel(results_stats_path)
ReadFile(w) ==
    /\ wpc[w] = "read"
    /\ wlocal' = [wlocal EXCEPT ![w] = ReadStats(stats_exists, stats)]
    /\ wpc' = [wpc EXCEPT ![w] = "write"]
    /\ UNCHANGED <<wname, wsaw, completed, overlapped, fileVars>>

\* the local table is updated and written back; the call returns
WriteFile(w) ==
    /\ wpc[w] = "write"
    /\ stats_exists' = TRUE
    /\ stats' = Increment(wlocal[w], wname[w])
    /\ completed' = [completed EXCEPT ![wname[w]] = @ + 1]
    /\ wpc' = [wpc EXCEPT ![w] = "idle"]
    /\ wname' = [wname EXCEPT ![w] = None]
    /\ wlocal' = [wlocal EXCEPT ![w] = <<>>]
    /\ wsaw' = [wsaw EXCEPT ![w] = FALSE]
    /\ UNCHANGED overlapped

\* nothing outside the statistics file and the callers changes
StatsOnly == pc = "stats" /\ UNCHANGED <<pc, loadVars, classVars, sessionVars>>

Call   == StatsOnly /\ \E w \in Writers : CallUpdate(w)
Check  == StatsOnly /\ \E w \in Writers : CheckFile(w)
Create == StatsOnly /\ \E w \in Writers : CreateFile(w)
Read   == StatsOnly /\ \E w \in Writers : ReadFile(w)
Write  == StatsOnly /\ \E w \in Writers : WriteFile(w)

NextStats == Call \/ Check \/ Create \/ Read \/ Write

SpecStats == InitStats /\ [][NextStats]_vars

(***************************************************************************)
(* Properties                                                              *)
(***************************************************************************)
AllIdle == \A w \in Writers : wpc[w] = "idle"

NamedCount(src) == Cardinality({k \in 1..Len(src) : src[k].name.kind # "blank"})

Rank(c) == IF c = "LOW" THEN 0 ELSE IF c = "MID" THEN 1 ELSE 2

\* the row index the resolver's table gives a pair of categories
ExpectedIndex(c) == 3 * (2 - Rank(c[2])) + (2 - Rank(c[1]))

\* the frame row and source option behind presented question k, option j
SourceRow(k)       == KeptRows(Frame(Sheet(layout, data)))[qperm[k]]
SourceOption(k, j) == operm[qperm[k]][j]
SourceCell(k, j, prefix) ==
    At(Frame(Sheet(layout, data)), SourceRow(k), Col(prefix, SourceOption(k, j)))

\* the scores of the options the user's radios point at, added up
RECURSIVE PickedSum(_, _)
PickedSum(field, k) ==
    IF k = 0 THEN F(0)
    ELSE FAdd(PickedSum(field, k - 1),
              IF field = "work" THEN questions[k].options[radio[k]].work
              ELSE questions[k].options[radio[k]].personality)

OptionBag(opts) ==
    [o \in Range(opts) |-> Cardinality({j \in 1..Len(opts) : opts[j] = o})]
Unordered(q) == [question |-> q.question, options |-> OptionBag(q.options)]
QuestionBag(qs) ==
    [q \in {Unordered(qs[k]) : k \in 1..Len(qs)} |->
        Cardinality({k \in 1..Len(qs) : Unordered(qs[k]) = q})]

\* the same sheet loaded with both shuffles leaving the order as it is
Unshuffled(lay) ==
    LET sheet == Sheet(lay, data)
        n     == NumKept(sheet)
    IN  load_questions(sheet, Ident(n), [r \in 1..n |-> Ident(NumOptions)])

\* C1: after Calculate, the work category is LOW exactly when work <= 10,
\* MID exactly when 10 < work <= 15 and HIGH exactly when work > 15, and the
\* personality category likewise with the bounds 10 and 22.
C1_BandsExact ==
    last_click = "calculate" =>
        /\ (cats[1] = "LOW")  <=> FLe(total_work, 10)
        /\ (cats[1] = "MID")  <=> (FGt(total_work, 10) /\ FLe(total_work, 15))
        /\ (cats[1] = "HIGH") <=> FGt(total_work, 15)
        /\ (cats[2] = "LOW")  <=> FLe(total_pers, 10)
        /\ (cats[2] = "MID")  <=> (FGt(total_pers, 10) /\ FLe(total_pers, 22))
        /\ (cats[2] = "HIGH") <=> FGt(total_pers, 22)

\* The bands of C1 on totals that are numbers: exact, a bound falling in the
\* lower band.
BandsExactOnNumbers ==
    (pc = "done" /\ ~total_work.nan /\ ~total_pers.nan) =>
        /\ (cats[1] = "LOW")  <=> (total_work.v <= 10 * Scale)
        /\ (cats[1] = "MID")  <=> (10 * Scale < total_work.v /\ total_work.v <= 15 * Scale)
        /\ (cats[1] = "HIGH") <=> (total_work.v > 15 * Scale)
        /\ (cats[2] = "LOW")  <=> (total_pers.v <= 10 * Scale)
        /\ (cats[2] = "MID")  <=> (10 * Scale < total_pers.v /\ total_pers.v <= 22 * Scale)
        /\ (cats[2] = "HIGH") <=> (total_pers.v > 22 * Scale)

\* C2: with nine named result rows, find_result returns for every pair of
\* totals the row at the index the table gives its category pair (never None,
\* never an error), and the nine pairs have nine distinct indexes.
C2_ResolverTotal ==
    /\ (pc = "done" /\ NamedCount(results_src) >= 9) =>
          /\ result.outcome = "row"
          /\ result.row = ResultRow(ExpectedIndex(cats) + 1)
    /\ \A c, d \in DOMAIN category_map : c # d => category_map[c] # category_map[d]

C2_Witness ==
    /\ pc = "done"
    /\ NamedCount(results_src) >= 9
    /\ total_work = F(15 * Scale) /\ total_pers = F(9 * Scale)
    /\ cats = <<"MID", "LOW">>
    /\ result.outcome = "row"
    /\ result.row.name = Text("midW_lowP")

\* C3: with fewer than nine named result rows, loading fails with a
\* DataValidationError, so no row is resolved and no lookup runs past the table.
C3_FewRowsRejected ==
    (pc = "done" /\ NamedCount(results_src) < 9) =>
        result.outcome = "DataValidationError"

\* C4: the totals computed on Calculate are the sums of the scores of exactly
\* the options the user selected.
C4_TotalsAreSelectedSum ==
    last_click = "calculate" =>
        /\ total_work = PickedSum("work", Len(questions))
        /\ total_pers = PickedSum("personality", Len(questions))

\* C5: a work or personality cell of a kept row that holds no number is
\* loaded as the score 0.0.
C5_BadScoreLoadsZero ==
    pc = "loaded" =>
        \A k \in 1..Len(questions), j \in 1..NumOptions :
            /\ SourceCell(k, j, "work").kind # "num"
                  => questions[k].options[j].work = F(0)
            /\ SourceCell(k, j, "pers").kind # "num"
                  => questions[k].options[j].personality = F(0)

\* C6: whatever its layout, a sheet loads to the questions its data rows load
\* to from the headerless 15-column layout, up to the order of the questions
\* and of each question's options.
C6_LayoutsAgree ==
    pc = "loaded" =>
        QuestionBag(questions) = QuestionBag(Unshuffled("headerless15"))

\* C7: the totals computed on Calculate are those the same source options
\* give when neither the questions nor the options were shuffled.
C7_ShuffleIndependent ==
    last_click = "calculate" =>
        LET plain == Unshuffled(layout)
            pos(r) == CHOOSE k \in 1..Len(qperm) : qperm[k] = r
            resp == [r \in 1..Len(plain) |->
                        plain[r].options[operm[r][radio[pos(r)]]].text]
        IN  Totals(plain, resp) = [work |-> total_work, personality |-> total_pers]

\* C8: a blank answer-text cell of a kept row is loaded as "Option i", i the
\* option's column number.
C8_BlankTextPlaceholder ==
    pc = "loaded" =>
        \A k \in 1..Len(questions), j \in 1..NumOptions :
            SourceCell(k, j, "ans").kind = "blank"
                => questions[k].options[j].text = Col("Option ", SourceOption(k, j))

\* C9: the run triggered by "Take quiz again" leaves every response
\* unanswered and first_time unset.
C9_AgainResets ==
    last_click = "again" =>
        /\ first_time = None
        /\ responses = Unanswered(Len(questions))

\* C10: the stored count of a name never exceeds the number of completed
\* update_stats calls for it, and equals that number whenever the calls ran
\* one after another; with interleaved calls it can end below it (the witness).
C10_SerialExactNeverOver ==
    \A n \in StatNames :
        /\ StoredCount(stats, n) <= completed[n]
        /\ (pc = "stats" /\ AllIdle /\ ~overlapped)
              => StoredCount(stats, n) = completed[n]

C10_LostUpdate ==
    /\ pc = "stats"
    /\ AllIdle
    /\ overlapped
    /\ \E n \in StatNames :
          /\ completed[n] = 2
          /\ StoredCount(stats, n) = 1
          /\ \A m \in StatNames \ {n} : completed[m] = 0

====
